---- MODULE Spec2Model ----
(***************************************************************************)
(* Model of frontends/json/jsonparse.cc: the JsonNode recursive-descent     *)
(* parser and json_import, the per-module netlist reconstruction.           *)
(***************************************************************************)
EXTENDS Integers, Sequences, FiniteSets, TLC

(* ---------------------------------------------------------------------- *)
(* Bounds                                                                   *)
(* ---------------------------------------------------------------------- *)
MaxLen == 5

(* ---------------------------------------------------------------------- *)
(* Characters of the input stream                                           *)
(* ---------------------------------------------------------------------- *)
DQ == "\""
BS == "\\"
EOF == "EOF"
Digits == {"0", "1", "2", "3", "4", "5", "6", "7", "8", "9"}
Alphabet == {DQ, BS, "1", "[", "]", "{", "}", " ", ",", ":"}
Whitespace == {" ", "\t", "\r", "\n"}

\* ch - '0'
DigitVal(ch) ==
  CASE ch = "0" -> 0 [] ch = "1" -> 1 [] ch = "2" -> 2 [] ch = "3" -> 3 [] ch = "4" -> 4
    [] ch = "5" -> 5 [] ch = "6" -> 6 [] ch = "7" -> 7 [] ch = "8" -> 8 [] ch = "9" -> 9

VARIABLES
  f_data,     \* characters the stream has delivered so far
  f_eof,      \* the stream has reported EOF
  f_pos,      \* stream position: characters consumed (get minus unget)
  stack,      \* active JsonNode constructors, innermost last
  status,     \* "running", "done", "error"
  root,       \* the constructed root JsonNode once status = "done"
  steps       \* loop iterations executed

pvars == <<f_data, f_eof, f_pos, stack, status, root, steps>>

NoNode == [type |-> "none"]

\* JsonNode fields after lines 34-35
NewNode == [type |-> "0", data_string |-> <<>>, data_number |-> 0,
            data_array |-> <<>>, data_dict |-> <<>>]

NewFrame == [pc |-> "top", node |-> NewNode, key |-> NoNode]

\* f.get() at position p can deliver c
CanGet(p, c) ==
  IF p < Len(f_data) THEN c = f_data[p + 1]
  ELSE IF f_eof THEN c = EOF
  ELSE c = EOF \/ (c \in Alphabet /\ Len(f_data) < MaxLen)

DataAfterGet(d, p, c) == IF p < Len(d) \/ c = EOF THEN d ELSE Append(d, c)

DictSet(d, k, v) == [x \in (DOMAIN d) \cup {k} |-> IF x = k THEN v ELSE d[x]]

Top == stack[Len(stack)]
Below == SubSeq(stack, 1, Len(stack) - 1)
SetTop(fr) == Below \o <<fr>>

ParseInit ==
  /\ f_data = <<>>
  /\ f_eof = FALSE
  /\ f_pos = 0
  /\ stack = <<NewFrame>>
  /\ status = "running"
  /\ root = NoNode
  /\ steps = 0

Fail ==
  /\ status' = "error"
  /\ stack' = <<>>
  /\ root' = NoNode

\* the constructor on top of the stack returns `n` to its caller
Return(n) ==
  IF Len(stack) = 1
  THEN /\ status' = "done"
       /\ stack' = <<>>
       /\ root' = n
  ELSE LET par == stack[Len(stack) - 1]
           rest == SubSeq(stack, 1, Len(stack) - 2)
       IN CASE par.pc = "arr" ->
                 /\ stack' = rest \o <<[par EXCEPT !.node.data_array = Append(@, n)]>>
                 /\ UNCHANGED <<status, root>>
            [] par.pc = "key" ->
                 /\ stack' = rest \o <<[par EXCEPT !.key = n, !.pc = "colon"]>>
                 /\ UNCHANGED <<status, root>>
            [] par.pc = "value" ->
                 IF par.key.type # "S"
                 THEN Fail
                 ELSE /\ stack' = rest \o <<[par EXCEPT
                                      !.node.data_dict = DictSet(@, par.key.data_string, n),
                                      !.key = NoNode, !.pc = "dict"]>>
                      /\ UNCHANGED <<status, root>>

\* f.get() delivered ch
Got(ch) ==
  /\ f_data' = DataAfterGet(f_data, f_pos, ch)
  /\ f_eof' = (f_eof \/ ch = EOF)

Consume == f_pos' = f_pos + 1
\* no character taken: EOF, or f.unget() after the get
Stay == f_pos' = f_pos

Continue == UNCHANGED <<stack, status, root>>
Goto(fr) == stack' = SetTop(fr) /\ UNCHANGED <<status, root>>

\* lines 39-45, 47-49, 74-77, 97-99, 121-123, 166: the loop of line 37
StepTop(ch) ==
  /\ Got(ch)
  /\ CASE ch = EOF -> Fail /\ Stay
       [] ch \in Whitespace -> Continue /\ Consume
       [] ch = DQ -> Goto([Top EXCEPT !.pc = "str", !.node.type = "S"]) /\ Consume
       [] ch \in Digits ->
            /\ Goto([Top EXCEPT !.pc = "num", !.node.type = "N",
                                !.node.data_number = DigitVal(ch)])
            /\ Consume
       [] ch = "[" -> Goto([Top EXCEPT !.pc = "arr", !.node.type = "A"]) /\ Consume
       [] ch = "{" -> Goto([Top EXCEPT !.pc = "dict", !.node.type = "D"]) /\ Consume
       [] OTHER -> Fail /\ Consume

\* the escaped character is appended in place of the backslash
StringAppend_Escaped(str, ch, escaped) == Append(str, escaped)

\* lines 61-68: a backslash reads one more character into a local that shadows
\* ch, so the character appended afterwards is still the backslash
StringAppend(str, ch, escaped) == Append(str, ch)

\* lines 53-68: the loop of line 51; ch2 is the character read after a backslash
StepStr(ch, ch2) ==
  CASE ch = EOF -> Got(ch) /\ Fail /\ Stay
    [] ch = DQ -> Got(ch) /\ Return(Top.node) /\ Consume
    [] ch = BS ->
         LET d1 == DataAfterGet(f_data, f_pos, ch)
         IN /\ IF f_pos + 1 < Len(d1) THEN ch2 = d1[f_pos + 2]
               ELSE IF f_eof THEN ch2 = EOF
               ELSE ch2 = EOF \/ Len(d1) < MaxLen
            /\ f_data' = DataAfterGet(d1, f_pos + 1, ch2)
            /\ f_eof' = (f_eof \/ ch2 = EOF)
            /\ IF ch2 = EOF
               THEN Fail /\ f_pos' = f_pos + 1
               ELSE /\ Goto([Top EXCEPT !.node.data_string = StringAppend(@, ch, ch2)])
                    /\ f_pos' = f_pos + 2
    [] OTHER ->
         /\ Got(ch)
         /\ Goto([Top EXCEPT !.node.data_string = Append(@, ch)])
         /\ Consume

\* lines 81-91: the loop of line 79; data_number is an int, and a stream of at
\* most MaxLen digits stays far below its range
StepNum(ch) ==
  /\ Got(ch)
  /\ CASE ch = EOF -> Return(Top.node) /\ Stay
       [] ch \notin Digits /\ ch # EOF -> Return(Top.node) /\ Stay
       [] OTHER -> /\ Goto([Top EXCEPT !.node.data_number = @ * 10 + DigitVal(ch)])
                   /\ Consume

\* the end of the stream closes the array as ']' does
StepArr_EofCloses(ch) ==
  /\ Got(ch)
  /\ CASE ch = EOF -> Return(Top.node) /\ Stay
       [] ch \in Whitespace \cup {","} -> Continue /\ Consume
       [] ch = "]" -> Return(Top.node) /\ Consume
       [] OTHER -> /\ stack' = Append(stack, NewFrame)
                   /\ UNCHANGED <<status, root>>
                   /\ Stay

\* lines 103-115: the loop of line 101
StepArr(ch) ==
  /\ Got(ch)
  /\ CASE ch = EOF -> Fail /\ Stay
       [] ch \in Whitespace \cup {","} -> Continue /\ Consume
       [] ch = "]" -> Return(Top.node) /\ Consume
       [] OTHER -> /\ stack' = Append(stack, NewFrame)
                   /\ UNCHANGED <<status, root>>
                   /\ Stay

\* lines 127-139: the loop of line 125 up to the constructor of the key
StepDict(ch) ==
  /\ Got(ch)
  /\ CASE ch = EOF -> Fail /\ Stay
       [] ch \in Whitespace \cup {","} -> Continue /\ Consume
       [] ch = "}" -> Return(Top.node) /\ Consume
       [] OTHER -> /\ stack' = SetTop([Top EXCEPT !.pc = "key"]) \o <<NewFrame>>
                   /\ UNCHANGED <<status, root>>
                   /\ Stay

\* lines 143-155: the loop of line 141 up to the constructor of the value
StepColon(ch) ==
  /\ Got(ch)
  /\ CASE ch = EOF -> Fail /\ Stay
       [] ch \in Whitespace \cup {":"} -> Continue /\ Consume
       [] OTHER -> /\ stack' = SetTop([Top EXCEPT !.pc = "value"]) \o <<NewFrame>>
                   /\ UNCHANGED <<status, root>>
                   /\ Stay

\* one iteration of the loop the innermost constructor is in
ParseStep ==
  /\ status = "running"
  /\ steps' = steps + 1
  /\ \E ch \in Alphabet \cup {EOF} :
       /\ CanGet(f_pos, ch)
       /\ CASE Top.pc = "top" -> StepTop(ch)
            [] Top.pc = "str" -> \E ch2 \in Alphabet \cup {EOF} :
                                   /\ ch # BS => ch2 = EOF
                                   /\ StepStr(ch, ch2)
            [] Top.pc = "num" -> StepNum(ch)
            [] Top.pc = "arr" -> StepArr(ch)
            [] Top.pc = "dict" -> StepDict(ch)
            [] Top.pc = "colon" -> StepColon(ch)

(* ---------------------------------------------------------------------- *)
(* json_import: state of the target design and of one module import       *)
(* ---------------------------------------------------------------------- *)
MaxDocBits == 3      \* elements in all bits arrays of one module entry
MaxId == 2           \* bit identifiers 1..MaxId

ModKeys == {<<"m">>, <<BS, "m">>, <<"t">>}
PortKeys == {<<"a">>, <<BS, "a">>, <<"b">>}
NetKeys == {<<"a">>}
CellKeys == {<<"u">>}
ConnKeys == {<<"A">>, <<"Y">>}
Directions == {"input", "output", "inout", "bogus"}
StrBits == {"1", "q"}

VARIABLES
  design,          \* escaped module name -> module
  done_mods,       \* keys of the modules dict already iterated
  module,          \* name of the module under construction
  signal_bits,     \* dict<int, SigBit>
  phase,           \* position in json_import
  error,           \* "none" or the class of the log_error raised
  done_keys,       \* keys of the dict being iterated that were visited
  port_direction,  \* port_direction_node->data_string
  wire,            \* port_wire / wire
  nbits,           \* GetSize of the bits array being scanned
  i,               \* loop index in the bits array
  sigbit,          \* SigBit(wire, i) of the last element processed
  bitval,          \* bitval_node of the last element processed
  cell,            \* cell under construction
  done_conns,      \* keys of the cell's connections dict already visited
  conn_name,       \* connection under construction
  sig,             \* SigSpec under construction
  autoidx,         \* counter behind NEW_ID
  doc_bits,        \* bits-array elements of the entries entered so far
  presented,       \* <<id, wire bit>> pairs read from port/netname bits
  op               \* the operation that made the last step

ivars == <<design, done_mods, module, signal_bits, phase, error, done_keys,
           port_direction, wire, nbits, i, sigbit, bitval, cell, done_conns,
           conn_name, sig, autoidx, doc_bits, presented, op>>

vars == <<pvars, ivars>>

\* RTLIL::escape_id: a name not starting with '\' or '$' gets a '\' prefix
escape_id(str) ==
  IF Len(str) > 0 /\ str[1] # BS /\ str[1] # "$" THEN <<BS>> \o str ELSE str

NoName == <<>>
NEW_ID(idx) == <<"$auto$", ToString(idx)>>

WireBit(w, k) == [wire |-> w, offset |-> k, data |-> "-"]
ConstBit(st) == [wire |-> NoName, offset |-> 0, data |-> st]
NoBit == [wire |-> NoName, offset |-> 0, data |-> "-"]

StrNode(st) == [type |-> "S", data_string |-> st, data_number |-> 0]
NumNode(k) == [type |-> "N", data_string |-> "", data_number |-> k]
ArrNode == [type |-> "A", data_string |-> "", data_number |-> 0]

NewWire(width) == [width |-> width, port_input |-> FALSE, port_output |-> FALSE]
NewModule == [wires |-> <<>>, connections |-> <<>>, cells |-> <<>>, ports |-> {}]

\* a module the design already holds: input \i drives output \o through a cell
OldModule ==
  [wires |-> DictSet(DictSet(<<>>, <<BS, "i">>, [NewWire(1) EXCEPT !.port_input = TRUE]),
                     <<BS, "o">>, [NewWire(1) EXCEPT !.port_output = TRUE]),
   connections |-> <<>>,
   cells |-> DictSet(<<>>, <<BS, "g">>,
                     [type |-> <<"$", "g">>,
                      connections |-> DictSet(DictSet(<<>>, <<BS, "A">>,
                                                     <<WireBit(<<BS, "i">>, 0)>>),
                                              <<BS, "Y">>, <<WireBit(<<BS, "o">>, 0)>>)]),
   ports |-> {<<BS, "i">>, <<BS, "o">>}]

Mod == design[module]

\* "inout" marks the wire as an input as well
SetDirection_InoutBoth(w, dir) ==
  IF dir = "input" THEN [w EXCEPT !.port_input = TRUE]
  ELSE IF dir = "output" THEN [w EXCEPT !.port_output = TRUE]
  ELSE IF dir = "inout" THEN [w EXCEPT !.port_input = TRUE, !.port_output = TRUE]
  ELSE w

\* lines 230-238
SetDirection(w, dir) ==
  IF dir = "input" THEN [w EXCEPT !.port_input = TRUE]
  ELSE IF dir \in {"output", "inout"} THEN [w EXCEPT !.port_output = TRUE]
  ELSE w

ValidDirection(dir) == dir \in {"input", "output", "inout"}

\* lines 247-254, 313-320, 391-398
IsConstString(st) == st \in {"0", "1", "x", "z"}
ConstOf(st) == ConstBit(CASE st = "0" -> "S0" [] st = "1" -> "S1"
                          [] st = "x" -> "Sx" [] OTHER -> "Sz")

\* module->wire(name); addWire(name, width) when absent
EnsureWire(wires, name, width) ==
  IF name \in DOMAIN wires THEN wires ELSE DictSet(wires, name, NewWire(width))

\* an input port takes over the identifier without connecting the old bit
PortBitNumber_NoConnect(sb, conns, port_output, bit, bitidx) ==
  IF bitidx \in DOMAIN sb
  THEN IF port_output
       THEN [signal_bits |-> sb, connections |-> Append(conns, <<bit, sb[bitidx]>>)]
       ELSE [signal_bits |-> DictSet(sb, bitidx, bit), connections |-> conns]
  ELSE [signal_bits |-> DictSet(sb, bitidx, bit), connections |-> conns]

\* an output port drives the net it reads
PortBitNumber_OutputDrives(sb, conns, port_output, bit, bitidx) ==
  IF bitidx \in DOMAIN sb
  THEN IF port_output
       THEN [signal_bits |-> sb, connections |-> Append(conns, <<sb[bitidx], bit>>)]
       ELSE [signal_bits |-> DictSet(sb, bitidx, bit),
             connections |-> Append(conns, <<sb[bitidx], bit>>)]
  ELSE [signal_bits |-> DictSet(sb, bitidx, bit), connections |-> conns]

\* every port bit becomes the representative, whatever the direction
PortBitNumber_AlwaysReplace(sb, conns, port_output, bit, bitidx) ==
  IF bitidx \in DOMAIN sb
  THEN IF port_output
       THEN [signal_bits |-> DictSet(sb, bitidx, bit),
             connections |-> Append(conns, <<bit, sb[bitidx]>>)]
       ELSE [signal_bits |-> DictSet(sb, bitidx, bit),
             connections |-> Append(conns, <<sb[bitidx], bit>>)]
  ELSE [signal_bits |-> DictSet(sb, bitidx, bit), connections |-> conns]

\* lines 260-270
PortBitNumber(sb, conns, port_output, bit, bitidx) ==
  IF bitidx \in DOMAIN sb
  THEN IF port_output
       THEN [signal_bits |-> sb, connections |-> Append(conns, <<bit, sb[bitidx]>>)]
       ELSE [signal_bits |-> DictSet(sb, bitidx, bit),
             connections |-> Append(conns, <<sb[bitidx], bit>>)]
  ELSE [signal_bits |-> DictSet(sb, bitidx, bit), connections |-> conns]

\* a netname bit becomes the representative of an identifier already known
NetBitNumber_Replaces(sb, conns, bit, bitidx) ==
  IF bitidx \in DOMAIN sb
  THEN [signal_bits |-> DictSet(sb, bitidx, bit),
        connections |-> IF bit # sb[bitidx] THEN Append(conns, <<bit, sb[bitidx]>>)
                        ELSE conns]
  ELSE [signal_bits |-> DictSet(sb, bitidx, bit), connections |-> conns]

\* lines 326-332
NetBitNumber(sb, conns, bit, bitidx) ==
  IF bitidx \in DOMAIN sb
  THEN [signal_bits |-> sb,
        connections |-> IF bit # sb[bitidx] THEN Append(conns, <<bit, sb[bitidx]>>)
                        ELSE conns]
  ELSE [signal_bits |-> DictSet(sb, bitidx, bit), connections |-> conns]

\* every reference allocates a new wire
CellBitNumber_AlwaysNew(sb, wires, idx, bitidx) ==
  [signal_bits |-> DictSet(sb, bitidx, WireBit(NEW_ID(idx), 0)),
   wires |-> DictSet(wires, NEW_ID(idx), NewWire(1)),
   autoidx |-> idx + 1,
   bit |-> WireBit(NEW_ID(idx), 0)]

\* lines 404-407
CellBitNumber(sb, wires, idx, bitidx) ==
  IF bitidx \notin DOMAIN sb
  THEN [signal_bits |-> DictSet(sb, bitidx, WireBit(NEW_ID(idx), 0)),
        wires |-> DictSet(wires, NEW_ID(idx), NewWire(1)),
        autoidx |-> idx + 1,
        bit |-> WireBit(NEW_ID(idx), 0)]
  ELSE [signal_bits |-> sb, wires |-> wires, autoidx |-> idx, bit |-> sb[bitidx]]

\* Module::fixup_ports
fixup_ports(wires) == {w \in DOMAIN wires : wires[w].port_input \/ wires[w].port_output}

ParserIdle ==
  /\ f_data = <<>> /\ f_eof = FALSE /\ f_pos = 0 /\ stack = <<>>
  /\ status = "idle" /\ root = NoNode /\ steps = 0

ImportIdle ==
  /\ design = DictSet(<<>>, <<BS, "m">>, OldModule)
  /\ done_mods = {}
  /\ module = NoName
  /\ signal_bits = <<>>
  /\ phase = "idle"
  /\ error = "none"
  /\ done_keys = {}
  /\ port_direction = ""
  /\ wire = NoName
  /\ nbits = 0
  /\ i = 0
  /\ sigbit = NoBit
  /\ bitval = ArrNode
  /\ cell = NoName
  /\ done_conns = {}
  /\ conn_name = NoName
  /\ sig = <<>>
  /\ autoidx = 1
  /\ doc_bits = 0
  /\ presented = {}
  /\ op = "init"

Init == ParserIdle /\ ImportIdle

\* log_error: the import stops where it is
Raise(class) ==
  /\ error' = class
  /\ phase' = "error"

\* the module is added to the design before the name is looked up
AddModule_First(d, name) ==
  [error |-> IF name \in DOMAIN d THEN "RedefinitionError" ELSE "none",
   design |-> DictSet(d, name, NewModule)]

\* lines 183-189
AddModule(d, name) ==
  IF name \in DOMAIN d
  THEN [error |-> "RedefinitionError", design |-> d]
  ELSE [error |-> "none", design |-> DictSet(d, name, NewModule)]

\* lines 462-463 and 181-193
BeginImport(modname) ==
  /\ phase = "idle"
  /\ modname \notin done_mods
  /\ op' = "BeginImport"
  /\ done_mods' = done_mods \cup {modname}
  /\ design' = AddModule(design, escape_id(modname)).design
  /\ IF AddModule(design, escape_id(modname)).error # "none"
     THEN /\ Raise(AddModule(design, escape_id(modname)).error)
          /\ UNCHANGED <<module, signal_bits, done_keys, doc_bits, presented>>
     ELSE /\ module' = escape_id(modname)
          /\ signal_bits' = <<>>
          /\ done_keys' = {}
          /\ doc_bits' = 0
          /\ presented' = {}
          /\ phase' = "ports"
          /\ error' = error
  /\ UNCHANGED <<port_direction, wire, nbits, i, sigbit, bitval, cell, done_conns, conn_name,
                 sig, autoidx>>

\* lines 199-200, 283-284, 345-346: the section is present but not a dictionary
BadSection ==
  /\ phase \in {"ports", "netnames", "cells"}
  /\ done_keys = {}
  /\ op' = "BadSection"
  /\ Raise(CASE phase = "ports" -> "MalformedPortError"
             [] phase = "netnames" -> "MalformedNetnameError"
             [] OTHER -> "MalformedCellError")
  /\ UNCHANGED <<design, done_mods, module, signal_bits, done_keys, port_direction,
                 wire, nbits, i, sigbit, bitval, cell, done_conns, conn_name, sig, autoidx,
                 doc_bits, presented>>

\* lines 204-239: one entry of the ports dictionary up to its bits loop
PortEntry(key, port_node) ==
  /\ phase = "ports"
  /\ key \notin done_keys
  /\ doc_bits + port_node.len <= MaxDocBits
  /\ op' = "PortEntry"
  /\ done_keys' = done_keys \cup {key}
  /\ IF port_node.type # "D" \/ "direction" \notin port_node.attrs
        \/ "bits" \notin port_node.attrs
        \/ port_node.direction_type # "S" \/ port_node.bits_type # "A"
     THEN /\ Raise("MalformedPortError")
          /\ UNCHANGED <<design, port_direction, wire, nbits, i, doc_bits>>
     ELSE LET name == escape_id(key)
              dir == port_node.direction
              len == port_node.len
              ws == EnsureWire(Mod.wires, name, len)
              ws2 == [ws EXCEPT ![name] = SetDirection(@, dir)]
          IN /\ design' = [design EXCEPT ![module].wires = ws2]
             /\ port_direction' = dir
             /\ wire' = name
             /\ IF ~ValidDirection(dir)
                THEN /\ Raise("InvalidDirectionError")
                     /\ UNCHANGED <<nbits, i, doc_bits>>
                ELSE /\ nbits' = len
                     /\ i' = 0
                     /\ doc_bits' = doc_bits + len
                     /\ phase' = IF len = 0 THEN "ports" ELSE "port_bits"
                     /\ error' = error
  /\ sigbit' = NoBit
  /\ bitval' = ArrNode
  /\ UNCHANGED <<done_mods, module, signal_bits, cell, done_conns, conn_name, sig,
                 autoidx, presented>>

\* lines 243-272: one element of a port's bits array
PortBit(bv) ==
  /\ phase = "port_bits"
  /\ op' = "PortBit"
  /\ bitval' = bv
  /\ sigbit' = WireBit(wire, i)
  /\ i' = i + 1
  /\ IF bv.type = "S" /\ IsConstString(bv.data_string)
     THEN /\ design' = [design EXCEPT ![module].connections =
                           Append(@, <<WireBit(wire, i), ConstOf(bv.data_string)>>)]
          /\ phase' = IF i + 1 < nbits THEN "port_bits" ELSE "ports"
          /\ UNCHANGED <<signal_bits, error, presented>>
     ELSE IF bv.type = "N"
     THEN LET r == PortBitNumber(signal_bits, Mod.connections,
                                 Mod.wires[wire].port_output, WireBit(wire, i),
                                 bv.data_number)
          IN /\ signal_bits' = r.signal_bits
             /\ design' = [design EXCEPT ![module].connections = r.connections]
             /\ presented' = presented \cup {<<bv.data_number, WireBit(wire, i)>>}
             /\ phase' = IF i + 1 < nbits THEN "port_bits" ELSE "ports"
             /\ error' = error
     ELSE /\ Raise("InvalidBitValueError")
          /\ UNCHANGED <<design, signal_bits, presented>>
  /\ UNCHANGED <<done_mods, module, done_keys, port_direction, wire, nbits, cell, done_conns,
                 conn_name, sig, autoidx, doc_bits>>

\* the locals of a loop body go out of scope when the loop is left
LeaveLoop ==
  /\ port_direction' = ""
  /\ wire' = NoName
  /\ nbits' = 0
  /\ i' = 0
  /\ sigbit' = NoBit
  /\ bitval' = ArrNode

\* line 276, or the ports section is absent
EndPorts ==
  /\ phase = "ports"
  /\ op' = "EndPorts"
  /\ design' = [design EXCEPT ![module].ports = fixup_ports(Mod.wires)]
  /\ phase' = "netnames"
  /\ done_keys' = {}
  /\ LeaveLoop
  /\ UNCHANGED <<done_mods, module, signal_bits, error, cell, done_conns, conn_name, sig,
                 autoidx, doc_bits, presented>>

\* lines 288-305: one entry of the netnames dictionary up to its bits loop
NetEntry(key, net_node) ==
  /\ phase = "netnames"
  /\ key \notin done_keys
  /\ doc_bits + net_node.len <= MaxDocBits
  /\ op' = "NetEntry"
  /\ done_keys' = done_keys \cup {key}
  /\ IF net_node.type # "D" \/ "bits" \notin net_node.attrs \/ net_node.bits_type # "A"
     THEN /\ Raise("MalformedNetnameError")
          /\ UNCHANGED <<design, wire, nbits, i, doc_bits>>
     ELSE /\ design' = [design EXCEPT ![module].wires =
                          EnsureWire(@, escape_id(key), net_node.len)]
          /\ wire' = escape_id(key)
          /\ nbits' = net_node.len
          /\ i' = 0
          /\ doc_bits' = doc_bits + net_node.len
          /\ phase' = IF net_node.len = 0 THEN "netnames" ELSE "net_bits"
          /\ error' = error
  /\ sigbit' = NoBit
  /\ bitval' = ArrNode
  /\ UNCHANGED <<done_mods, module, signal_bits, port_direction, cell, done_conns,
                 conn_name, sig, autoidx, presented>>

\* lines 309-334: one element of a netname's bits array
NetBit(bv) ==
  /\ phase = "net_bits"
  /\ op' = "NetBit"
  /\ bitval' = bv
  /\ sigbit' = WireBit(wire, i)
  /\ i' = i + 1
  /\ IF bv.type = "S" /\ IsConstString(bv.data_string)
     THEN /\ design' = [design EXCEPT ![module].connections =
                           Append(@, <<WireBit(wire, i), ConstOf(bv.data_string)>>)]
          /\ phase' = IF i + 1 < nbits THEN "net_bits" ELSE "netnames"
          /\ UNCHANGED <<signal_bits, error, presented>>
     ELSE IF bv.type = "N"
     THEN LET r == NetBitNumber(signal_bits, Mod.connections, WireBit(wire, i),
                                bv.data_number)
          IN /\ signal_bits' = r.signal_bits
             /\ design' = [design EXCEPT ![module].connections = r.connections]
             /\ presented' = presented \cup {<<bv.data_number, WireBit(wire, i)>>}
             /\ phase' = IF i + 1 < nbits THEN "net_bits" ELSE "netnames"
             /\ error' = error
     ELSE /\ Raise("InvalidBitValueError")
          /\ UNCHANGED <<design, signal_bits, presented>>
  /\ UNCHANGED <<done_mods, module, done_keys, port_direction, wire, nbits, cell, done_conns,
                 conn_name, sig, autoidx, doc_bits>>

\* line 339: the netnames loop is over, or the section is absent
EndNets ==
  /\ phase = "netnames"
  /\ op' = "EndNets"
  /\ phase' = "cells"
  /\ done_keys' = {}
  /\ LeaveLoop
  /\ UNCHANGED <<design, done_mods, module, signal_bits, error, cell, done_conns,
                 conn_name, sig, autoidx, doc_bits, presented>>

NewCell(type) == [type |-> type, connections |-> <<>>]

\* Cell::setPort
setPort(cells, c, name, signal) ==
  [cells EXCEPT ![c].connections = DictSet(@, name, signal)]

\* lines 350-374: one entry of the cells dictionary up to its connections loop
CellEntry(key, cell_node) ==
  /\ phase = "cells"
  /\ key \notin done_keys
  /\ op' = "CellEntry"
  /\ done_keys' = done_keys \cup {key}
  /\ IF cell_node.type # "D" \/ "type" \notin cell_node.attrs
        \/ cell_node.type_type # "S"
     THEN /\ Raise("MalformedCellError")
          /\ UNCHANGED <<design, cell, done_conns>>
     ELSE /\ design' = [design EXCEPT ![module].cells =
                          DictSet(@, escape_id(key),
                                  NewCell(escape_id(cell_node.type_string)))]
          /\ cell' = escape_id(key)
          /\ done_conns' = {}
          /\ IF "connections" \notin cell_node.attrs \/ cell_node.connections_type # "D"
             THEN Raise("MalformedCellError")
             ELSE phase' = "conns" /\ error' = error
  /\ UNCHANGED <<done_mods, module, signal_bits, port_direction, wire, nbits, i, sigbit,
                 bitval, conn_name, sig, autoidx, doc_bits, presented>>

\* lines 378-386: one entry of a cell's connections dictionary up to its loop
ConnEntry(key, type, len) ==
  /\ phase = "conns"
  /\ key \notin done_conns
  /\ doc_bits + len <= MaxDocBits
  /\ op' = "ConnEntry"
  /\ done_conns' = done_conns \cup {key}
  /\ IF type # "A"
     THEN /\ Raise("MalformedCellError")
          /\ UNCHANGED <<design, conn_name, sig, nbits, i, doc_bits>>
     ELSE /\ conn_name' = escape_id(key)
          /\ sig' = <<>>
          /\ nbits' = len
          /\ i' = 0
          /\ doc_bits' = doc_bits + len
          /\ error' = error
          /\ IF len = 0
             THEN /\ design' = [design EXCEPT ![module].cells =
                                  setPort(@, cell, escape_id(key), <<>>)]
                  /\ phase' = "conns"
             ELSE /\ design' = design
                  /\ phase' = "conn_bits"
  /\ sigbit' = NoBit
  /\ bitval' = ArrNode
  /\ UNCHANGED <<done_mods, module, signal_bits, done_keys, port_direction, wire, cell,
                 autoidx, presented>>

\* lines 388-414: one element of a connection's array; setPort after the last
CellBit(bv) ==
  /\ phase = "conn_bits"
  /\ op' = "CellBit"
  /\ bitval' = bv
  /\ i' = i + 1
  /\ IF bv.type = "S" /\ IsConstString(bv.data_string)
     THEN LET s2 == Append(sig, ConstOf(bv.data_string))
          IN /\ sig' = s2
             /\ sigbit' = ConstOf(bv.data_string)
             /\ design' = IF i + 1 < nbits THEN design
                          ELSE [design EXCEPT ![module].cells =
                                  setPort(@, cell, conn_name, s2)]
             /\ phase' = IF i + 1 < nbits THEN "conn_bits" ELSE "conns"
             /\ UNCHANGED <<signal_bits, autoidx, error>>
     ELSE IF bv.type = "N"
     THEN LET r == CellBitNumber(signal_bits, Mod.wires, autoidx, bv.data_number)
              s2 == Append(sig, r.bit)
          IN /\ sig' = s2
             /\ sigbit' = r.bit
             /\ signal_bits' = r.signal_bits
             /\ autoidx' = r.autoidx
             /\ design' = IF i + 1 < nbits
                          THEN [design EXCEPT ![module].wires = r.wires]
                          ELSE [design EXCEPT ![module].wires = r.wires,
                                              ![module].cells =
                                                 setPort(@, cell, conn_name, s2)]
             /\ phase' = IF i + 1 < nbits THEN "conn_bits" ELSE "conns"
             /\ error' = error
     ELSE /\ Raise("InvalidBitValueError")
          /\ UNCHANGED <<design, signal_bits, sigbit, sig, autoidx>>
  /\ UNCHANGED <<done_mods, module, done_keys, port_direction, wire, nbits, cell,
                 done_conns, conn_name, doc_bits, presented>>

\* line 415: the connections loop of the cell is over
EndConns ==
  /\ phase = "conns"
  /\ op' = "EndConns"
  /\ phase' = "cells"
  /\ LeaveLoop
  /\ cell' = NoName
  /\ done_conns' = {}
  /\ conn_name' = NoName
  /\ sig' = <<>>
  /\ UNCHANGED <<design, done_mods, module, signal_bits, error, done_keys, autoidx,
                 doc_bits, presented>>

\* lines 420-421: the cells loop is over (or the section is absent); json_import
\* returns and its signal_bits goes out of scope
EndCells ==
  /\ phase = "cells"
  /\ op' = "EndCells"
  /\ phase' = "idle"
  /\ signal_bits' = <<>>
  /\ presented' = {}
  /\ done_keys' = {}
  /\ module' = NoName
  /\ UNCHANGED <<design, done_mods, error, port_direction, wire, nbits, i,
                 sigbit, bitval, cell, done_conns, conn_name, sig, autoidx, doc_bits>>

\* the JSON nodes a document can hold at each place: well-formed ones and one
\* node for each way the checks of json_import can reject it
PortNode(type, attrs, direction_type, direction, bits_type, len) ==
  [type |-> type, attrs |-> attrs, direction_type |-> direction_type,
   direction |-> direction, bits_type |-> bits_type, len |-> len]
PortNodes ==
  {PortNode("D", {"direction", "bits"}, "S", d, "A", n) :
     d \in Directions, n \in 0..MaxDocBits}
  \cup {PortNode("A", {}, "S", "input", "A", 0),
        PortNode("D", {"bits"}, "S", "input", "A", 0),
        PortNode("D", {"direction"}, "S", "input", "A", 0),
        PortNode("D", {"direction", "bits"}, "N", "input", "A", 0),
        PortNode("D", {"direction", "bits"}, "S", "input", "S", 0)}

NetNode(type, attrs, bits_type, len) ==
  [type |-> type, attrs |-> attrs, bits_type |-> bits_type, len |-> len]
NetNodes ==
  {NetNode("D", {"bits"}, "A", n) : n \in 0..MaxDocBits}
  \cup {NetNode("A", {}, "A", 0), NetNode("D", {}, "A", 0), NetNode("D", {"bits"}, "S", 0)}

CellNode(type, attrs, type_type, type_string, connections_type) ==
  [type |-> type, attrs |-> attrs, type_type |-> type_type,
   type_string |-> type_string, connections_type |-> connections_type]
CellNodes ==
  {CellNode("D", {"type", "connections"}, "S", <<"$", "g">>, "D"),
   CellNode("A", {}, "S", <<>>, "D"),
   CellNode("D", {"connections"}, "S", <<>>, "D"),
   CellNode("D", {"type", "connections"}, "N", <<>>, "D"),
   CellNode("D", {"type"}, "S", <<"$", "g">>, "D"),
   CellNode("D", {"type", "connections"}, "S", <<"$", "g">>, "A")}

\* bit identifiers are labels that json_import only compares for equality, so
\* documents are enumerated up to renaming: a new identifier is the next unused one
BitValsNow ==
  {StrNode(st) : st \in StrBits} \cup {ArrNode}
  \cup {NumNode(k) : k \in 1..(IF Cardinality(DOMAIN signal_bits) < MaxId
                               THEN Cardinality(DOMAIN signal_bits) + 1 ELSE MaxId)}

Next ==
  \/ \E modname \in ModKeys : BeginImport(modname) /\ UNCHANGED pvars
  \/ BadSection /\ UNCHANGED pvars
  \/ \E key \in PortKeys, port_node \in PortNodes :
       PortEntry(key, port_node) /\ UNCHANGED pvars
  \/ \E bv \in BitValsNow : PortBit(bv) /\ UNCHANGED pvars
  \/ EndPorts /\ UNCHANGED pvars
  \/ \E key \in NetKeys, net_node \in NetNodes :
       NetEntry(key, net_node) /\ UNCHANGED pvars
  \/ \E bv \in BitValsNow : NetBit(bv) /\ UNCHANGED pvars
  \/ EndNets /\ UNCHANGED pvars
  \/ \E key \in CellKeys, cell_node \in CellNodes :
       CellEntry(key, cell_node) /\ UNCHANGED pvars
  \/ \E key \in ConnKeys, type \in {"A", "S"}, len \in 0..MaxDocBits :
       ConnEntry(key, type, len) /\ UNCHANGED pvars
  \/ \E bv \in BitValsNow : CellBit(bv) /\ UNCHANGED pvars
  \/ EndConns /\ UNCHANGED pvars
  \/ EndCells /\ UNCHANGED pvars

Spec == Init /\ [][Next]_vars


ParserInit == ParseInit /\ ImportIdle

ParserNext == ParseStep /\ UNCHANGED ivars

ParserSpec == ParserInit /\ [][ParserNext]_vars

\* the frontend runs the parser to completion on its own thread
ParserFairSpec == ParserSpec /\ WF_vars(ParserNext)

(* ---------------------------------------------------------------------- *)
(* Properties of the parser                                                 *)
(* ---------------------------------------------------------------------- *)
\* characters of whitespace the stream starts with
LeadingSpace(d) ==
  CHOOSE k \in 0..Len(d) :
    /\ \A j \in 1..k : d[j] \in Whitespace
    /\ k = Len(d) \/ d[k + 1] \notin Whitespace

\* the decoding the specification describes: a backslash yields a backslash and
\* swallows the character after it, every other character yields itself
RECURSIVE Decoded(_, _)
Decoded(b, j) ==
  IF j > Len(b) THEN <<>>
  ELSE IF b[j] = BS THEN <<BS>> \o Decoded(b, j + 2)
  ELSE <<b[j]>> \o Decoded(b, j + 1)

\* position of the first quote of b, from j on, that no backslash precedes
RECURSIVE ClosingQuote(_, _)
ClosingQuote(b, j) ==
  IF j > Len(b) THEN 0
  ELSE IF b[j] = BS THEN ClosingQuote(b, j + 2)
  ELSE IF b[j] = DQ THEN j
  ELSE ClosingQuote(b, j + 1)

\* the stream after the opening quote of a root string, as far as it was read
RootStringText == SubSeq(f_data, LeadingSpace(f_data) + 2, f_pos)

\* C6: while and after a String is parsed at the root, the decoded text is the
\* text read so far with every backslash kept and the character after each
\* backslash dropped; the string ends at the first quote that no backslash
\* precedes, and nowhere else.
C6_StringEscapes ==
  /\ (status = "running" /\ Len(stack) = 1 /\ Top.pc = "str")
       => /\ Top.node.data_string = Decoded(RootStringText, 1)
          /\ ClosingQuote(RootStringText, 1) = 0
  /\ (status = "done" /\ root.type = "S")
       => /\ ClosingQuote(RootStringText, 1) = Len(RootStringText)
          /\ root.data_string =
               Decoded(SubSeq(RootStringText, 1, Len(RootStringText) - 1), 1)

\* a quote after a backslash did not end the string and left no trace in the text
C6_Witness ==
  /\ status = "done"
  /\ root.type = "S"
  /\ f_data = <<DQ, BS, DQ, "1", DQ>>
  /\ root.data_string = <<BS, "1">>

\* C7: the parser stops on every finite stream: the iterations it runs are
\* bounded by the characters it consumed (an iteration that consumes nothing
\* leaves its loop), and once the stream has ended the parse ends with an error
\* and no value, unless the root value was already complete (a root Number that
\* the end of the stream terminates).
C7_Terminates ==
  /\ <>(status # "running")
  /\ [](steps <= 3 * f_pos + 1)
  /\ []((f_eof /\ status # "running")
           => \/ status = "error" /\ root = NoNode
              \/ status = "done" /\ root.type = "N")
  /\ [](status = "error" => root = NoNode)

\* the stream ended inside a string inside two unterminated arrays
C7_Witness ==
  /\ status = "error"
  /\ f_eof
  /\ f_data = <<"[", "[", DQ, "1">>
  /\ root = NoNode

(* ---------------------------------------------------------------------- *)
(* Properties of json_import                                                *)
(* ---------------------------------------------------------------------- *)
Importing == module # NoName
Wires == Mod.wires
Conns == Mod.connections
Edges == {Conns[k] : k \in 1..Len(Conns)}

\* the bits reached from the bits of S by following at most n connections from
\* the driven bit to its driver
RECURSIVE Drivers(_, _)
Drivers(S, n) ==
  IF n = 0 THEN S
  ELSE Drivers(S \cup {e[2] : e \in {x \in Edges : x[1] \in S}}, n - 1)

\* the step that leads to the primed state processed a numeric bit value
NumberStep(kind) == op' = kind /\ error' = "none" /\ bitval'.type = "N"

\* C1: at every point of an import every bit identifier read so far has its
\* entry in signal_bits, and every wire bit that a port or netname presented
\* with the identifier is that entry or reaches it along the connections made
\* so far, going from each driven bit to its driver.
C1_OneRepresentative ==
  Importing =>
    /\ \A p \in presented :
         /\ p[1] \in DOMAIN signal_bits
         /\ signal_bits[p[1]] \in Drivers({p[2]}, Len(Conns))
    /\ (op = "CellBit" /\ error = "none" /\ bitval.type = "N")
         => /\ bitval.data_number \in DOMAIN signal_bits
            /\ signal_bits[bitval.data_number] = sigbit

\* a presented bit reaches its representative only through an intermediate bit
C1_Witness ==
  /\ Importing
  /\ \E p \in presented :
       /\ signal_bits[p[1]] # p[2]
       /\ <<p[2], signal_bits[p[1]]>> \notin Edges
       /\ signal_bits[p[1]] \in Drivers({p[2]}, Len(Conns))

\* the wire bits that the ports presented with identifier id
PortBitsOf(id) == {p[2] : p \in {q \in presented : q[1] = id}}
InputOnly(b) == Wires[b.wire].port_input /\ ~Wires[b.wire].port_output
OutputOnly(b) == Wires[b.wire].port_output /\ ~Wires[b.wire].port_input

\* C2: during and right after the ports phase, when the port bits carrying an
\* identifier are exactly one bit of a wire marked input (and not output) and
\* one bit of a wire marked output (and not input), the output bit is connected
\* as driven by the input bit and the input bit is the representative, in
\* whichever order the two were processed.
C2_OutputDrivenByInput ==
  (Importing /\ (phase \in {"ports", "port_bits"} \/ op = "EndPorts")) =>
    \A id \in DOMAIN signal_bits :
      \A a \in PortBitsOf(id), b \in PortBitsOf(id) :
        (PortBitsOf(id) = {a, b} /\ a # b /\ InputOnly(a) /\ OutputOnly(b))
          => /\ <<b, a>> \in Edges
             /\ signal_bits[id] = a

\* the output port bit was read first and the input port bit just now
C2_Witness ==
  /\ Importing
  /\ phase = "ports"
  /\ op = "PortBit"
  /\ port_direction = "input"
  /\ bitval.type = "N"
  /\ \E b \in PortBitsOf(bitval.data_number) :
       /\ PortBitsOf(bitval.data_number) = {sigbit, b}
       /\ sigbit # b
       /\ InputOnly(sigbit) /\ OutputOnly(b)
       /\ Conns = <<<<b, sigbit>>>>
       /\ signal_bits[bitval.data_number] = sigbit

\* C3: between the start and the end of an import no step removes an entry of
\* signal_bits, and a step changes an existing entry only if it processes a bit
\* of a port whose direction is "input" carrying that identifier; that step
\* connects the old representative as driven by the port bit and makes the port
\* bit the entry.  Bits of output and inout ports, of netnames and of cell
\* connections leave the entry of their identifier as it is.
C3_ReplaceOnlyByInput ==
  [][(Importing /\ op' # "EndCells") =>
       \A id \in DOMAIN signal_bits :
         /\ id \in DOMAIN signal_bits'
         /\ signal_bits'[id] # signal_bits[id] =>
              /\ NumberStep("PortBit")
              /\ port_direction = "input"
              /\ bitval'.data_number = id
              /\ signal_bits'[id] = sigbit'
              /\ design'[module].connections =
                   Append(Conns, <<signal_bits[id], sigbit'>>)
         /\ ((NumberStep("PortBit") /\ port_direction \in {"output", "inout"})
              \/ NumberStep("NetBit") \/ NumberStep("CellBit"))
            /\ bitval'.data_number = id
            => signal_bits'[id] = signal_bits[id]]_vars

\* an input port bit has just replaced a different representative
C3_Witness ==
  /\ Importing
  /\ op = "PortBit"
  /\ port_direction = "input"
  /\ error = "none"
  /\ bitval.type = "N"
  /\ Len(Conns) > 0
  /\ Conns[Len(Conns)][2] = sigbit
  /\ Conns[Len(Conns)][1] # sigbit
  /\ signal_bits[bitval.data_number] = sigbit

Anonymous(name) == Len(name) > 0 /\ name[1] = "$auto$"

\* C4: a bit identifier read in a cell connection that has no entry in
\* signal_bits makes exactly one new anonymous wire of width 1, whose bit becomes
\* the entry and is appended; an identifier that has an entry appends the entry
\* and changes neither the wires nor signal_bits; so every later reference
\* appends the same bit.  No step of the cells phase adds a connection, and a
\* numeric bit raises no error.
C4_CellBits ==
  [][(Importing /\ phase \in {"cells", "conns", "conn_bits"}) =>
       /\ design'[module].connections = Conns
       /\ (op' = "CellBit" /\ bitval'.type = "N") =>
            LET id == bitval'.data_number
                added == (DOMAIN design'[module].wires) \ DOMAIN Wires
            IN /\ error' = "none"
               /\ sig' = Append(sig, sigbit')
               /\ IF id \in DOMAIN signal_bits
                  THEN /\ sigbit' = signal_bits[id]
                       /\ signal_bits' = signal_bits
                       /\ design'[module].wires = Wires
                  ELSE /\ Cardinality(added) = 1
                       /\ \A w \in added :
                            /\ Anonymous(w)
                            /\ design'[module].wires[w] = NewWire(1)
                            /\ sigbit' = WireBit(w, 0)
                       /\ \A w \in DOMAIN Wires : design'[module].wires[w] = Wires[w]
                       /\ signal_bits' = DictSet(signal_bits, id, sigbit')
               /\ i' = nbits =>
                    design'[module].cells[cell].connections[conn_name] = sig']_vars

\* two connections of a cell refer to an identifier seen nowhere else and hold
\* the same anonymous wire bit
C4_Witness ==
  /\ Importing
  /\ phase = "conns"
  /\ op = "CellBit"
  /\ presented = {}
  /\ Conns = <<>>
  /\ Cardinality(DOMAIN Mod.cells[cell].connections) = 2
  /\ \A c \in DOMAIN Mod.cells[cell].connections :
       /\ Mod.cells[cell].connections[c] = <<sigbit>>
       /\ Anonymous(sigbit.wire)
       /\ Wires[sigbit.wire].width = 1

FlagOf(ws, w, f) == IF w \in DOMAIN ws THEN ws[w][f] ELSE FALSE

\* C5: a port entry that passes the structure checks leaves the flags of its
\* wire as follows: "input" sets port_input and leaves port_output as it was,
\* "output" and "inout" set port_output and leave port_input as it was (unset on
\* a wire the entry created), any other direction raises InvalidDirectionError
\* and stops the import.  A bit of an inout port whose identifier has an entry
\* is connected as driven by the entry, which stays.
C5_Directions ==
  [][Importing =>
       /\ (op' = "PortEntry" /\ error' # "MalformedPortError") =>
            LET ws == design'[module].wires
            IN /\ wire' \in DOMAIN ws
               /\ port_direction' = "input" =>
                    /\ ws[wire'].port_input
                    /\ ws[wire'].port_output = FlagOf(Wires, wire', "port_output")
                    /\ error' = "none"
               /\ port_direction' \in {"output", "inout"} =>
                    /\ ws[wire'].port_output
                    /\ ws[wire'].port_input = FlagOf(Wires, wire', "port_input")
                    /\ error' = "none"
               /\ port_direction' \notin {"input", "output", "inout"} =>
                    /\ error' = "InvalidDirectionError"
                    /\ phase' = "error"
       /\ (NumberStep("PortBit") /\ port_direction = "inout"
           /\ bitval'.data_number \in DOMAIN signal_bits) =>
            /\ signal_bits' = signal_bits
            /\ design'[module].connections =
                 Append(Conns, <<sigbit', signal_bits[bitval'.data_number]>>)]_vars

\* a bit of an inout port, output flag only, was connected to the entry it found
C5_Witness ==
  /\ Importing
  /\ op = "PortBit"
  /\ port_direction = "inout"
  /\ error = "none"
  /\ bitval.type = "N"
  /\ Wires[wire].port_output /\ ~Wires[wire].port_input
  /\ signal_bits[bitval.data_number] # sigbit
  /\ Len(Conns) > 0
  /\ Conns[Len(Conns)] = <<sigbit, signal_bits[bitval.data_number]>>

\* C8: an import whose escaped module name the design already holds raises
\* RedefinitionError and leaves the design as it was: the same modules, each
\* with the wires, cells, port flags and connections it had; any other import
\* adds exactly the new, empty module.
C8_Redefinition ==
  [][op' = "BeginImport" =>
       \A modname \in done_mods' \ done_mods :
         IF escape_id(modname) \in DOMAIN design
         THEN /\ error' = "RedefinitionError"
              /\ phase' = "error"
              /\ design' = design
         ELSE /\ error' = "none"
              /\ DOMAIN design' = DOMAIN design \cup {escape_id(modname)}
              /\ \A m \in DOMAIN design : design'[m] = design[m]]_vars

\* module "t" was imported, then the key "m" met the module \m held from the start
C8_Witness ==
  /\ error = "RedefinitionError"
  /\ done_mods = {<<"t">>, <<"m">>}
  /\ DOMAIN design = {<<BS, "m">>, <<BS, "t">>}
  /\ design[<<BS, "m">>] = OldModule
  /\ design[<<BS, "t">>].connections # <<>>

\* C9 as stated: a step of an import changes signal_bits only when it processes
\* a bit of an input port or a bit of a cell connection.
C9_OnlyInputsAndCells ==
  [][(Importing /\ op' # "EndCells" /\ signal_bits' # signal_bits) =>
       \/ NumberStep("PortBit") /\ port_direction = "input"
       \/ NumberStep("CellBit")]_vars

\* C9 amended: a bit of an output or inout port or of a netname never changes
\* an existing entry of signal_bits; it adds an entry, holding the bit itself,
\* exactly when its identifier has none.  Entries are added by the first
\* sighting of an identifier in any port, netname or cell connection, and
\* changed only by bits of input ports.
C9_ConsumeOrRegister ==
  [][(Importing /\ op' # "EndCells") =>
       /\ ((NumberStep("PortBit") /\ port_direction \in {"output", "inout"})
            \/ NumberStep("NetBit")) =>
            LET id == bitval'.data_number
            IN IF id \in DOMAIN signal_bits
               THEN signal_bits' = signal_bits
               ELSE signal_bits' = DictSet(signal_bits, id, sigbit')
       /\ \A id \in DOMAIN signal_bits' :
            IF id \in DOMAIN signal_bits
            THEN signal_bits'[id] # signal_bits[id] =>
                   NumberStep("PortBit") /\ port_direction = "input"
            ELSE /\ NumberStep("PortBit") \/ NumberStep("NetBit") \/ NumberStep("CellBit")
                 /\ bitval'.data_number = id
                 /\ signal_bits'[id] = sigbit']_vars

\* an output port bit and then a netname bit each registered an identifier
C9_Witness ==
  /\ Importing
  /\ op = "NetBit"
  /\ error = "none"
  /\ bitval.type = "N"
  /\ Conns = <<>>
  /\ signal_bits[bitval.data_number] = sigbit
  /\ \E id \in DOMAIN signal_bits :
       /\ id # bitval.data_number
       /\ signal_bits[id].wire # sigbit.wire
       /\ OutputOnly(signal_bits[id])

InRange(b) ==
  b.wire # NoName =>
    /\ b.wire \in DOMAIN Wires
    /\ 0 <= b.offset
    /\ b.offset < Wires[b.wire].width

\* C10: every wire bit held in signal_bits, in a connection or in the signal of
\* a cell connection has an offset within the width of its wire.
C10_BitsInRange ==
  Importing =>
    /\ \A id \in DOMAIN signal_bits : InRange(signal_bits[id])
    /\ \A k \in 1..Len(Conns) : InRange(Conns[k][1]) /\ InRange(Conns[k][2])
    /\ \A k \in 1..Len(sig) : InRange(sig[k])
    /\ \A c \in DOMAIN Mod.cells : \A n \in DOMAIN Mod.cells[c].connections :
         \A k \in 1..Len(Mod.cells[c].connections[n]) :
           InRange(Mod.cells[c].connections[n][k])
====
